---- MODULE Spec2Model ----
(***************************************************************************)
(* Model of price_comparison.py: the link normalizer (_clean_google_link), *)
(* the page scraper (fetch_product_info), the comparator (compare_prices)  *)
(* and the report writer (to_csv), driven by main.                         *)
(*                                                                         *)
(* Text is a sequence of one-character strings, so that splitting,         *)
(* percent-decoding and regular-expression matching are computed and not   *)
(* assumed.  Page text is a sequence of tokens: the characters "$", ".",   *)
(* ",", " ", the digits, and whole words.                                  *)
(***************************************************************************)
EXTENDS Integers, Sequences, FiniteSets, TLC

VARIABLES
    \* ---- link normalizer run ----
    href,            \* the raw link handed to _clean_google_link
    gen,             \* how href was put together (ghost: never read by the code)
    cleaned,         \* what _clean_google_link did with href
    \* ---- pipeline run (main) ----
    items,           \* parse_input's list of ProductItem
    outfile,         \* the file at the output path: [exists, lines]
    pc,              \* where main is
    idx,             \* 1-based position of the item compare_prices is on
    search_results,  \* google_search's result for the current item
    usable,          \* how many div.g of the last results page had a link
    options,         \* the VendorOptions scraped so far for the current item
    requests,        \* the page requests made so far: <<item, hit, url>>
    results,         \* compare_prices' rows so far (unsorted)
    returned,        \* compare_prices' return value: [set, rows]
    failed,          \* the requests that failed: <<"search" or "fetch", item, hit, url>>
    err              \* the exception that ended main, "none" if none

vars == <<href, gen, cleaned, items, outfile, pc, idx, search_results, usable,
          options, requests, results, returned, failed, err>>

linkVars == <<href, gen, cleaned>>
pipeVars == <<items, outfile, pc, idx, search_results, usable, options,
              requests, results, returned, failed, err>>

(***************************************************************************)
(* Strings                                                                 *)
(***************************************************************************)

\* "".join(parts)
RECURSIVE Cat(_)
Cat(parts) ==
    IF parts = <<>> THEN <<>> ELSE Head(parts) \o Cat(Tail(parts))

\* s[i:] with a 1-based i
From(s, i) == SubSeq(s, i, Len(s))

\* 1-based s.find(c, start); 0 when c does not occur at or after start
RECURSIVE Find(_, _, _)
Find(s, c, start) ==
    IF start > Len(s) THEN 0
    ELSE IF s[start] = c THEN start
    ELSE Find(s, c, start + 1)

\* 1-based s.rfind(c); 0 when c does not occur
RECURSIVE RFind(_, _, _)
RFind(s, c, end) ==
    IF end < 1 THEN 0
    ELSE IF s[end] = c THEN end
    ELSE RFind(s, c, end - 1)

Contains(s, c) == \E i \in 1..Len(s) : s[i] = c

\* s.split(c)
RECURSIVE Split(_, _)
Split(s, c) ==
    LET i == Find(s, c, 1)
    IN  IF i = 0 THEN <<s>>
        ELSE <<SubSeq(s, 1, i - 1)>> \o Split(From(s, i + 1), c)

\* s.lstrip(" "): urlsplit strips leading C0 control characters and spaces
RECURSIVE LStrip(_)
LStrip(s) ==
    IF s # <<>> /\ Head(s) = " " THEN LStrip(Tail(s)) ELSE s

LowerLetters == <<"a","b","c","d","e","f","g","h","i","j","k","l","m",
                  "n","o","p","q","r","s","t","u","v","w","x","y","z">>
UpperLetters == <<"A","B","C","D","E","F","G","H","I","J","K","L","M",
                  "N","O","P","Q","R","S","T","U","V","W","X","Y","Z">>
DigitChars == <<"0","1","2","3","4","5","6","7","8","9">>

Range(s) == {s[i] : i \in 1..Len(s)}

IsDigit(c) == c \in Range(DigitChars)
IsAlpha(c) == c \in Range(LowerLetters) \cup Range(UpperLetters)

\* value of a decimal digit character
DigitVal(c) == (CHOOSE i \in 1..10 : DigitChars[i] = c) - 1

\* c.lower()
Lower(c) ==
    IF c \in Range(UpperLetters)
    THEN LowerLetters[CHOOSE i \in 1..26 : UpperLetters[i] = c]
    ELSE c

LowerStr(s) == [i \in 1..Len(s) |-> Lower(s[i])]

\* the printable ASCII characters, code 32 to 126 (code 96 is written out:
\* the lexer does not take that character in a string)
Ascii == <<" ","!","\"","#","$","%","&","'","(",")","*","+",",","-",".","/",
           "0","1","2","3","4","5","6","7","8","9",":",";","<","=",">","?",
           "@","A","B","C","D","E","F","G","H","I","J","K","L","M","N","O",
           "P","Q","R","S","T","U","V","W","X","Y","Z","[","\\","]","^","_",
           "<backtick>","a","b","c","d","e","f","g","h","i","j","k","l","m","n","o",
           "p","q","r","s","t","u","v","w","x","y","z","{","|","}","~">>

\* chr(n) for a printable ASCII code; the links drawn below escape no other byte
Chr(n) == IF n \in 32..126 THEN Ascii[n - 31] ELSE "<non-printable>"

HexDigits == <<"0","1","2","3","4","5","6","7","8","9","a","b","c","d","e","f">>
IsHex(c) == Lower(c) \in Range(HexDigits)
HexVal(c) == (CHOOSE i \in 1..16 : HexDigits[i] = Lower(c)) - 1

(***************************************************************************)
(* urllib.parse, as _clean_google_link and fetch_product_info use it       *)
(***************************************************************************)

\* urllib.parse.unquote: every %XX with two hex digits becomes the character
\* of that code, any other "%" stays
RECURSIVE Unquote(_)
Unquote(s) ==
    IF s = <<>> THEN <<>>
    ELSE IF Head(s) = "%" /\ Len(s) >= 3 /\ IsHex(s[2]) /\ IsHex(s[3])
         THEN <<Chr(16 * HexVal(s[2]) + HexVal(s[3]))>> \o Unquote(From(s, 4))
         ELSE <<Head(s)>> \o Unquote(Tail(s))

\* s.replace("+", " ")
PlusToSpace(s) == [i \in 1..Len(s) |-> IF s[i] = "+" THEN " " ELSE s[i]]

\* urllib.parse.parse_qsl(qs), keep_blank_values=False, separator "&": the
\* (name, value) pairs in order; a field with a blank value is dropped
RECURSIVE ParseQslFields(_)
ParseQslFields(fields) ==
    IF fields = <<>> THEN <<>>
    ELSE LET nv    == Head(fields)
             eq    == Find(nv, "=", 1)
             name  == IF eq = 0 THEN nv ELSE SubSeq(nv, 1, eq - 1)
             value == IF eq = 0 THEN <<>> ELSE From(nv, eq + 1)
         IN  (IF value # <<>>
              THEN <<<<Unquote(PlusToSpace(name)), Unquote(PlusToSpace(value))>>>>
              ELSE <<>>)
             \o ParseQslFields(Tail(fields))

ParseQsl(qs) == ParseQslFields(Split(qs, "&"))

\* urllib.parse.parse_qs(qs).get(name): the values given for name, in order;
\* <<>> stands for the None of an absent name (both are falsy)
QsGet(qs, name) ==
    LET pairs == ParseQsl(qs)
        mine  == SelectSeq(pairs, LAMBDA p : p[1] = name)
    IN  [i \in 1..Len(mine) |-> mine[i][2]]

SchemeExtra == {"+", "-", "."}
IsSchemeChar(c) == IsAlpha(c) \/ IsDigit(c) \/ c \in SchemeExtra

\* the schemes of urllib.parse.uses_params
UsesParams == { <<>>,
                <<"f","t","p">>, <<"h","d","l">>, <<"h","t","t","p">>,
                <<"h","t","t","p","s">>, <<"i","m","a","p">>,
                <<"s","h","t","t","p">>, <<"r","t","s","p">>,
                <<"r","t","s","p","u">>, <<"s","i","p">>, <<"s","i","p","s">>,
                <<"m","m","s">>, <<"s","f","t","p">>, <<"t","e","l">>,
                <<"p","r","o","s","p","e","r","o">> }

\* the first "/", "?" or "#" at or after start, Len(s)+1 if there is none
RECURSIVE NetlocEnd(_, _)
NetlocEnd(s, start) ==
    IF start > Len(s) THEN start
    ELSE IF s[start] \in {"/", "?", "#"} THEN start
    ELSE NetlocEnd(s, start + 1)

\* s.partition(c): the text before the first c and the text after it
Partition(s, c) ==
    LET i == Find(s, c, 1)
    IN  IF i = 0 THEN [head |-> s, found |-> FALSE, tail |-> <<>>]
        ELSE [head |-> SubSeq(s, 1, i - 1), found |-> TRUE, tail |-> From(s, i + 1)]

\* urlsplit, the scheme: the text before the first ":" when it is a letter
\* followed by scheme characters
SplitScheme(u) ==
    LET colon == Find(u, ":", 1)
    IN  IF /\ colon > 1
           /\ IsAlpha(u[1])
           /\ \A i \in 1..(colon - 1) : IsSchemeChar(u[i])
        THEN [scheme |-> LowerStr(SubSeq(u, 1, colon - 1)), rest |-> From(u, colon + 1)]
        ELSE [scheme |-> <<>>, rest |-> u]

\* urlsplit, the netloc: after a leading "//", up to the next "/", "?" or "#"
SplitNetloc(u) ==
    IF Len(u) >= 2 /\ u[1] = "/" /\ u[2] = "/"
    THEN [netloc |-> SubSeq(u, 3, NetlocEnd(u, 3) - 1), rest |-> From(u, NetlocEnd(u, 3))]
    ELSE [netloc |-> <<>>, rest |-> u]

SplitResult(scheme, netloc, byQuery, fragment) ==
    [ok       |-> Contains(netloc, "[") = Contains(netloc, "]"),
     scheme   |-> scheme,
     netloc   |-> netloc,
     path     |-> byQuery.head,
     query    |-> byQuery.tail,
     fragment |-> fragment]

SplitRest(scheme, netloc, byHash) ==
    SplitResult(scheme, netloc, Partition(byHash.head, "?"), byHash.tail)

SplitAfterScheme(scheme, net) ==
    SplitRest(scheme, net.netloc, Partition(net.rest, "#"))

SplitAfterStrip(sch) == SplitAfterScheme(sch.scheme, SplitNetloc(sch.rest))

\* urllib.parse.urlsplit(url).  ok is FALSE where urlsplit raises ValueError
\* ("Invalid IPv6 URL": a netloc with one of "[" and "]" and not the other).
UrlSplit(url) == SplitAfterStrip(SplitScheme(LStrip(url)))

\* _splitparams(path): the position of the ";" that starts the parameters of
\* the last path segment, 0 if it has none
ParamsAt(p) ==
    IF Contains(p, "/") THEN Find(p, ";", RFind(p, "/", Len(p)))
    ELSE Find(p, ";", 1)

TakeParams(sp, semi) ==
    IF sp.scheme \in UsesParams /\ semi > 0
    THEN [sp EXCEPT !.path = SubSeq(sp.path, 1, semi - 1)]
    ELSE sp

ParseSplit(sp) == TakeParams(sp, ParamsAt(sp.path))

\* urllib.parse.urlparse(url): urlsplit, then the parameters of the last path
\* segment (after ";") are taken off the path
UrlParse(url) == ParseSplit(UrlSplit(url))

(***************************************************************************)
(* PriceComparator._clean_google_link                                      *)
(***************************************************************************)

UrlPath == <<"/", "u", "r", "l">>
QName == <<"q">>

\* CleanWithQ with the last q value taken in place of the first
CleanWithQLast(h, parsed, q) ==
    IF parsed.path = UrlPath /\ q # <<>>
    THEN [exc |-> "none", value |-> q[Len(q)]]
    ELSE [exc |-> "none", value |-> h]

\* lines 114-118, q being parse_qs(parsed.query).get("q")
CleanWithQ(h, parsed, q) ==
    IF parsed.path = UrlPath /\ q # <<>>
    THEN [exc |-> "none", value |-> q[1]]
    ELSE [exc |-> "none", value |-> h]

CleanParsed(h, parsed) ==
    IF ~parsed.ok THEN [exc |-> "ValueError", value |-> <<>>]
    ELSE CleanWithQ(h, parsed, QsGet(parsed.query, QName))

\* What the call does: returns a string (exc = "none") or raises.
CleanGoogleLink(h) == CleanParsed(h, UrlParse(h))

(***************************************************************************)
(* The links the normalizer is run on.  A link is put together as          *)
(*     prefix path [ "?" field ("&" field)* ] fragment                     *)
(* and handed over as plain text: the code sees only href.  gen records    *)
(* how the link was made, which is what the properties are stated on.      *)
(***************************************************************************)

\* the longest destination, in pieces
MaxDestLen == 2

ExampleDest == <<"h","t","t","p","s",":","/","/","e","x","a","m","p","l","e",".","c","o","m","/","p","r","o","d","u","c","t">>

\* [text: what stands before the path,
\*  kind: "authority" (a host), "relative" (nothing), "nohost" (text with no
\*        "//": part of the path), "malformed" (a host with an unclosed "[")]
LinkPrefixes ==
    { [text |-> <<>>, kind |-> "relative"],
      [text |-> <<"h","t","t","p","s",":","/","/","w","w","w",".","g","o","o","g","l","e",".","c","o","m">>, kind |-> "authority"],
      [text |-> <<"/","/","g",".","c","o",":","8","0">>, kind |-> "authority"],
      [text |-> <<"g",".","c","o">>, kind |-> "nohost"],
      [text |-> <<"h","t","t","p",":","/","/","[",":",":","1">>, kind |-> "malformed"] }

\* [text, isUrl: whether this is the redirect path, exact: whether it is
\*  literally "/url"]
LinkPaths ==
    { [text |-> <<"/","u","r","l">>, isUrl |-> TRUE, exact |-> TRUE],
      [text |-> <<"/","u","r","l",";","p">>, isUrl |-> TRUE, exact |-> FALSE],
      [text |-> <<"/","s","e","a","r","c","h">>, isUrl |-> FALSE, exact |-> FALSE],
      [text |-> <<"/","a","/","u","r","l">>, isUrl |-> FALSE, exact |-> FALSE],
      [text |-> <<"/","U","R","L">>, isUrl |-> FALSE, exact |-> FALSE],
      [text |-> <<"/","u","r","l","/">>, isUrl |-> FALSE, exact |-> FALSE] }

\* A query field: its text and whether it is a q parameter with a value.
FieldSaU == [text |-> <<"s","a","=","U">>, isQ |-> FALSE]
FieldVed == [text |-> <<"v","e","d","=","2","a","h">>, isQ |-> FALSE]
FieldBlankQ == [text |-> <<"q","=">>, isQ |-> FALSE]
FieldBareQ == [text |-> <<"q">>, isQ |-> FALSE]
FieldUpperQ == [text |-> <<"Q","=","x">>, isQ |-> FALSE]
FieldEscapedQ == [text |-> <<"%","7","1","=","x">>, isQ |-> TRUE]
FieldOtherQ == [text |-> <<"q","=","z">>, isQ |-> TRUE]

\* the fields before the destination's
LinkHeads == { <<>>, <<FieldSaU>>, <<FieldBlankQ>>, <<FieldBareQ>>,
               <<FieldUpperQ>>, <<FieldEscapedQ>> }

\* the fields after the destination's
LinkTails == { <<>>, <<FieldSaU>>, <<FieldSaU, FieldVed>>, <<FieldOtherQ>> }

LinkFragments == { <<>>, <<"#","q","=","f">> }

\* A piece of a destination: as it is written in the query (raw) and the text
\* it stands for (plain).
DestPieces ==
    { [raw |-> ExampleDest, plain |-> ExampleDest],
      [raw |-> <<"a">>, plain |-> <<"a">>],
      [raw |-> <<"2","6">>, plain |-> <<"2","6">>],
      [raw |-> <<"=">>, plain |-> <<"=">>],
      [raw |-> <<"+">>, plain |-> <<" ">>],
      [raw |-> <<"%","2","6">>, plain |-> <<"&">>],
      [raw |-> <<"%","2","5">>, plain |-> <<"%">>] }

\* the sequences of 1 to n destination pieces
RECURSIVE DestsUpTo(_)
DestsUpTo(n) ==
    IF n = 0 THEN {}
    ELSE {<<p>> : p \in DestPieces}
         \cup {Append(d, p) : d \in DestsUpTo(n - 1), p \in DestPieces}

\* "&".join(texts)
RECURSIVE JoinAmp(_)
JoinAmp(texts) ==
    IF texts = <<>> THEN <<>>
    ELSE IF Len(texts) = 1 THEN texts[1]
    ELSE texts[1] \o <<"&">> \o JoinAmp(Tail(texts))

\* the link made of these parts; dest is <<>> (no q=<dest> field) or pieces
MakeHref(prefix, path, head, dest, tail, frag) ==
    LET destField == IF dest = <<>> THEN <<>>
                     ELSE << <<"q", "=">> \o Cat([i \in 1..Len(dest) |-> dest[i].raw]) >>
        fields == [i \in 1..Len(head) |-> head[i].text] \o destField
                  \o [i \in 1..Len(tail) |-> tail[i].text]
    IN  prefix.text \o path.text
        \o (IF fields = <<>> THEN <<>> ELSE <<"?">> \o JoinAmp(fields))
        \o frag

MakeGen(prefix, path, head, dest, tail) ==
    [kind   |-> prefix.kind,
     \* the link's path is the redirect path
     isUrl  |-> path.isUrl /\ prefix.kind # "nohost",
     \* the link reads <host>/url?q=<dest>...
     literal |-> /\ path.exact /\ head = <<>> /\ dest # <<>>
                 /\ prefix.kind \in {"authority", "relative"},
     \* the destination, decoded
     dest   |-> Cat([i \in 1..Len(dest) |-> dest[i].plain]),
     \* the query carries a q parameter with a value
     hasQ   |-> \/ dest # <<>>
                \/ \E i \in 1..Len(head) : head[i].isQ
                \/ \E i \in 1..Len(tail) : tail[i].isQ]

NotCalled == [exc |-> "pending", value |-> <<>>]

\* main and its variables, at rest while the normalizer alone is run
PipeIdle ==
    /\ items = <<>>
    /\ outfile = [exists |-> FALSE, lines |-> <<>>]
    /\ pc = "idle"
    /\ idx = 0
    /\ search_results = <<>>
    /\ usable = 0
    /\ options = <<>>
    /\ requests = <<>>
    /\ results = <<>>
    /\ returned = [set |-> FALSE, rows |-> <<>>]
    /\ failed = {}
    /\ err = "none"

InitLink ==
    /\ \E prefix \in LinkPrefixes, path \in LinkPaths, head \in LinkHeads,
          dest \in {<<>>} \cup DestsUpTo(MaxDestLen), tail \in LinkTails,
          frag \in LinkFragments :
            /\ href = MakeHref(prefix, path, head, dest, tail, frag)
            /\ gen = MakeGen(prefix, path, head, dest, tail)
    /\ cleaned = NotCalled
    /\ PipeIdle

\* one call of _clean_google_link(href)
CleanLink ==
    /\ cleaned = NotCalled
    /\ cleaned' = CleanGoogleLink(href)
    /\ UNCHANGED <<href, gen>>
    /\ UNCHANGED pipeVars

NextLink == CleanLink

SpecLink == InitLink /\ [][NextLink]_vars

\* C1: a redirect link <host>/url?q=<dest>&... (any host or none, any further
\* fields, any fragment) is cleaned to <dest>, decoded once (each %XX and each
\* "+" of the query value taken as the character it stands for).
C1_RedirectYieldsDest ==
    (cleaned # NotCalled /\ gen.literal)
        => cleaned = [exc |-> "none", value |-> gen.dest]

\* the example of the test: the wrapped link of the product page, cleaned
ExampleHref ==
    <<"h","t","t","p","s",":","/","/","w","w","w",".","g","o","o","g","l","e",".","c","o","m","/","u","r","l","?","q","=","h","t","t","p","s",":","/","/","e","x","a","m","p","l","e",".","c","o","m","/","p","r","o","d","u","c","t","&","s","a","=","U","&","v","e","d","=","2","a","h">>

C1_Witness ==
    /\ href = ExampleHref
    /\ gen.literal
    /\ cleaned = [exc |-> "none", value |-> ExampleDest]

\* C2: a link that is not redirect-wrapped (its path is not the redirect
\* path, or its query carries no q parameter with a value) comes back
\* unchanged.
C2_NonRedirectUnchanged ==
    (cleaned # NotCalled /\ ~(gen.isUrl /\ gen.hasQ))
        => cleaned = [exc |-> "none", value |-> href]


(***************************************************************************)
(* PriceComparator.fetch_product_info                                      *)
(*                                                                         *)
(* An Optional[float] is <<>> (None) or <<v>>, v in units of 10^-FracDigits *)
(* (a fixed-point number: the page texts below have at most FracDigits     *)
(* digits after the point, so that no digit is lost).                      *)
(***************************************************************************)

FracDigits == 2

RECURSIVE Pow10(_)
Pow10(n) == IF n = 0 THEN 1 ELSE 10 * Pow10(n - 1)

Scale == Pow10(FracDigits)

NoFloat == <<>>
Some(v) == <<v>>

\* the words that re.I "shipping" matches
ShippingWords == {"shipping", "Shipping", "SHIPPING"}

NumberTokens == Range(DigitChars) \cup {",", "."}

\* the last position of the run of [\d,.] tokens that starts at i
RECURSIVE RunEnd(_, _)
RunEnd(text, i) ==
    IF i < Len(text) /\ text[i + 1] \in NumberTokens
    THEN RunEnd(text, i + 1)
    ELSE i

\* re.search(r"\$(\d+[\d,.]*)", text) from position start on: group(1) of the
\* leftmost match, <<>> when there is none
RECURSIVE DollarNumber(_, _)
DollarNumber(text, start) ==
    IF start >= Len(text) THEN <<>>
    ELSE IF text[start] = "$" /\ IsDigit(text[start + 1])
         THEN SubSeq(text, start + 1, RunEnd(text, start + 1))
         ELSE DollarNumber(text, start + 1)

PriceMatch(text) == DollarNumber(text, 1)

\* re.search(r"shipping[^\$]*\$(\d+[\d,.]*)", text, re.I): from the leftmost
\* "shipping" whose next "$" is followed by a digit, the number after that "$"
RECURSIVE FreightFrom(_, _)
FreightFrom(text, start) ==
    IF start > Len(text) THEN <<>>
    ELSE IF text[start] \in ShippingWords
         THEN LET d == Find(text, "$", start + 1)
              IN  IF d > 0 /\ d < Len(text) /\ IsDigit(text[d + 1])
                  THEN SubSeq(text, d + 1, RunEnd(text, d + 1))
                  ELSE FreightFrom(text, start + 1)
         ELSE FreightFrom(text, start + 1)

FreightMatch(text) == FreightFrom(text, 1)

\* int(digits), digits a sequence of digit characters (0 for none)
RECURSIVE DigitsValue(_)
DigitsValue(ds) ==
    IF ds = <<>> THEN 0
    ELSE 10 * DigitsValue(SubSeq(ds, 1, Len(ds) - 1)) + DigitVal(ds[Len(ds)])

\* float(group.replace(",", "")): ok is FALSE where float raises ValueError
\* (more than one "." in the number)
ParseFloat(group) ==
    LET s     == SelectSeq(group, LAMBDA c : c # ",")
        dots  == Cardinality({i \in 1..Len(s) : s[i] = "."})
        dot   == Find(s, ".", 1)
        whole == IF dot = 0 THEN s ELSE SubSeq(s, 1, dot - 1)
        frac  == IF dot = 0 THEN <<>> ELSE From(s, dot + 1)
        fracN == [i \in 1..FracDigits |-> IF i <= Len(frac) THEN frac[i] ELSE "0"]
    IN  [ok    |-> dots <= 1,
         value |-> IF dots <= 1
                   THEN DigitsValue(whole) * Scale + DigitsValue(fracN)
                   ELSE 0]

VendorOption(vendor, price, freight, url) ==
    [vendor |-> vendor, price |-> price, freight |-> freight, url |-> url]

\* FetchProductInfo without the try/except around the GET
FetchProductInfoUncaught(url, resp) ==
    IF ~resp.ok
    THEN [exc |-> "HTTPError", opt |-> VendorOption(<<>>, NoFloat, NoFloat, url)]
    ELSE [exc |-> "none",
          opt |-> VendorOption(UrlParse(url).netloc,
                     IF PriceMatch(resp.text) = <<>> THEN NoFloat
                     ELSE Some(ParseFloat(PriceMatch(resp.text)).value),
                     IF FreightMatch(resp.text) = <<>> THEN NoFloat
                     ELSE Some(ParseFloat(FreightMatch(resp.text)).value),
                     url)]

\* fetch_product_info(url) when the GET of url answers resp: [ok, text], ok
\* FALSE for a timeout, a non-2xx status or a network error, text the page's
\* visible text.  Gives [exc, opt]: the exception raised, if any, and the
\* option returned.
FetchProductInfo(url, resp) ==
    LET pm == PriceMatch(resp.text)
        fm == FreightMatch(resp.text)
        pf == ParseFloat(pm)
        ff == ParseFloat(fm)
    IN  IF ~resp.ok
        THEN [exc |-> "none", opt |-> VendorOption(<<>>, NoFloat, NoFloat, url)]
        ELSE IF (pm # <<>> /\ ~pf.ok) \/ (fm # <<>> /\ ~ff.ok)
        THEN [exc |-> "ValueError", opt |-> VendorOption(<<>>, NoFloat, NoFloat, url)]
        ELSE [exc |-> "none",
              opt |-> VendorOption(UrlParse(url).netloc,
                                   IF pm = <<>> THEN NoFloat ELSE Some(pf.value),
                                   IF fm = <<>> THEN NoFloat ELSE Some(ff.value),
                                   url)]

(***************************************************************************)
(* PriceComparator.google_search                                           *)
(***************************************************************************)

NumResults == 3

\* the anchor of one div.g of the results markup: none at all, or its href
NoAnchor == [anchor |-> FALSE, href |-> <<>>, title |-> ""]
Anchor(h) == [anchor |-> TRUE, href |-> h, title |-> "result"]

\* SearchLoop without the break at num results
RECURSIVE SearchLoopNoBreak(_, _, _)
SearchLoopNoBreak(divs, acc, num) ==
    IF divs = <<>> THEN [exc |-> "none", results |-> acc]
    ELSE IF ~Head(divs).anchor THEN SearchLoopNoBreak(Tail(divs), acc, num)
    ELSE IF CleanGoogleLink(Head(divs).href).exc # "none"
         THEN [exc |-> CleanGoogleLink(Head(divs).href).exc, results |-> <<>>]
    ELSE IF CleanGoogleLink(Head(divs).href).value # <<>>
         THEN SearchLoopNoBreak(Tail(divs),
                  Append(acc, [title |-> Head(divs).title,
                               link |-> CleanGoogleLink(Head(divs).href).value]), num)
         ELSE SearchLoopNoBreak(Tail(divs), acc, num)

\* The loop over soup.select("div.g").  Gives [exc, results].
RECURSIVE SearchLoop(_, _, _)
SearchLoop(divs, acc, num) ==
    IF divs = <<>> THEN [exc |-> "none", results |-> acc]
    ELSE LET g == Head(divs)
             link == CleanGoogleLink(g.href)
             more == IF link.value # <<>>
                     THEN Append(acc, [title |-> g.title, link |-> link.value])
                     ELSE acc
         IN  IF ~g.anchor THEN SearchLoop(Tail(divs), acc, num)
             ELSE IF link.exc # "none" THEN [exc |-> link.exc, results |-> <<>>]
             ELSE IF Len(more) >= num THEN [exc |-> "none", results |-> more]
             ELSE SearchLoop(Tail(divs), more, num)

\* google_search(query, num) when the GET answers resp: [ok, divs]
GoogleSearch(resp, num) ==
    IF ~resp.ok THEN [exc |-> "HTTPError", results |-> <<>>]
    ELSE SearchLoop(resp.divs, <<>>, num)

(***************************************************************************)
(* PriceComparator.compare_prices                                          *)
(***************************************************************************)

\* BestTotalFrom with the comparison the wrong way round
RECURSIVE BestTotalFromGreater(_, _)
BestTotalFromGreater(opts, best) ==
    IF opts = <<>> THEN best
    ELSE IF Head(opts).price = NoFloat THEN BestTotalFromGreater(Tail(opts), best)
    ELSE IF best = NoFloat
            \/ Head(opts).price[1]
                 + (IF Head(opts).freight = NoFloat THEN 0 ELSE Head(opts).freight[1])
               > best[1]
         THEN BestTotalFromGreater(Tail(opts),
                  Some(Head(opts).price[1]
                       + (IF Head(opts).freight = NoFloat THEN 0
                          ELSE Head(opts).freight[1])))
         ELSE BestTotalFromGreater(Tail(opts), best)

\* lines 144-150: the cheapest price + freight among the priced options
RECURSIVE BestTotalFrom(_, _)
BestTotalFrom(opts, best) ==
    IF opts = <<>> THEN best
    ELSE LET opt   == Head(opts)
             total == opt.price[1]
                      + (IF opt.freight = NoFloat \/ opt.freight = Some(0)
                         THEN 0 ELSE opt.freight[1])
         IN  IF opt.price = NoFloat THEN BestTotalFrom(Tail(opts), best)
             ELSE IF best = NoFloat \/ total < best[1]
                  THEN BestTotalFrom(Tail(opts), Some(total))
                  ELSE BestTotalFrom(Tail(opts), best)

BestTotal(opts) == BestTotalFrom(opts, NoFloat)

\* A row is a dict: its (key, value) pairs in insertion order.
Key(name) == <<name, 0>>
AltKey(i) == <<"Alt Vendor", i>>

\* f"{opt.vendor}, {opt.price}, {opt.freight}, {opt.url}": the four parts
AltText(opt) == <<opt.vendor, opt.price, opt.freight, opt.url>>

\* lines 151-160
MakeRow(item, opts) ==
    << <<Key("Item Name"), item.name>>,
       <<Key("Original Vendor"), item.vendor>>,
       <<Key("Quantity"), item.quantity>>,
       <<Key("Original Unit Price"), item.unit_price>>,
       <<Key("Original Freight"), item.freight>>,
       <<Key("Best Total Price"), BestTotal(opts)>> >>
    \o [i \in 1..Len(opts) |-> <<AltKey(i), AltText(opts[i])>>]

RowKeys(row) == [i \in 1..Len(row) |-> row[i][1]]
HasKey(row, key) == \E i \in 1..Len(row) : row[i][1] = key
RowGet(row, key) == row[CHOOSE i \in 1..Len(row) : row[i][1] = key][2]

\* line 162, the key of sorted(): r.get("Best Total Price") or float("inf"),
\* as [inf, value]
SortKey(row) ==
    LET best == RowGet(row, Key("Best Total Price"))
    IN  IF best = NoFloat \/ best = Some(0)
        THEN [inf |-> TRUE, value |-> 0]
        ELSE [inf |-> FALSE, value |-> best[1]]

KeyLess(a, b) ==
    \/ ~a.inf /\ b.inf
    \/ ~a.inf /\ ~b.inf /\ a.value < b.value

\* row put into an already sorted list, after the rows that are not greater
RECURSIVE InsertStable(_, _)
InsertStable(sortedRows, row) ==
    IF sortedRows = <<>> THEN <<row>>
    ELSE IF KeyLess(SortKey(row), SortKey(Head(sortedRows)))
         THEN <<row>> \o sortedRows
         ELSE <<Head(sortedRows)>> \o InsertStable(Tail(sortedRows), row)

\* sorted(rows, key=...): stable
RECURSIVE Sorted(_)
Sorted(rows) ==
    IF rows = <<>> THEN <<>>
    ELSE InsertStable(Sorted(SubSeq(rows, 1, Len(rows) - 1)), rows[Len(rows)])

(***************************************************************************)
(* PriceComparator.to_csv                                                  *)
(***************************************************************************)

NoFile == [exists |-> FALSE, lines |-> <<>>]
File(lines) == [exists |-> TRUE, lines |-> lines]

\* csv.DictWriter.writerow(row), extrasaction "raise": the row's cells under
\* the field names, "" for a field the row lacks; ok FALSE where it raises
\* ValueError (a key of the row is no field name)
WriteRow(keys, row) ==
    [ok   |-> \A i \in 1..Len(row) : row[i][1] \in Range(keys),
     line |-> [k \in 1..Len(keys) |->
                 IF HasKey(row, keys[k]) THEN <<RowGet(row, keys[k])>> ELSE <<"">>]]

\* the loop of lines 171-172 over the rows left, file being what is written
RECURSIVE WriteRows(_, _, _)
WriteRows(keys, rows, lines) ==
    IF rows = <<>> THEN [exc |-> "none", file |-> File(lines)]
    ELSE LET w == WriteRow(keys, Head(rows))
         IN  IF ~w.ok THEN [exc |-> "ValueError", file |-> File(lines)]
             ELSE WriteRows(keys, Tail(rows), Append(lines, w.line))

\* to_csv(data, path) with old the file at path before.  Gives [exc, file].
ToCsvResult(data, old) ==
    IF data = <<>> THEN [exc |-> "none", file |-> old]
    ELSE LET keys == RowKeys(data[1])
         IN  WriteRows(keys, data, <<keys>>)


(***************************************************************************)
(* main: parse_input, compare_prices, to_csv                               *)
(***************************************************************************)

\* the most line items in the input file
MaxItems == 1
\* the most line items in a run whose report has several rows to order
BatchItems == MaxItems + 1
\* the most div.g blocks in a results page
MaxAnchors == 4

ItemNames == <<"Widget", "Gadget", "Sprocket", "Bolt">>

\* the i-th line item of the input file
Item(i) ==
    [name       |-> IF i <= Len(ItemNames) THEN ItemNames[i] ELSE "Item",
     vendor     |-> "Acme",
     quantity   |-> 4 + i,
     unit_price |-> 10 * i * Scale,
     freight    |-> 0,
     notes      |-> ""]

\* the page of the k-th shop
ShopUrl(k) == <<"h","t","t","p",":","/","/","s">> \o <<DigitChars[k + 1]>> \o <<".","i","o","/","p">>

\* the href a results page gives for a shop: wrapped in a redirect or direct
WrappedHref(k) == <<"/","u","r","l","?","q","=">> \o ShopUrl(k) \o <<"&","s","a","=","U">>

\* a link with an unclosed "[" in its host
MalformedHref == <<"h","t","t","p",":","/","/","[",":",":","1","/">>

AnchorKinds == {"none", "empty", "wrapped", "direct", "malformed"}

Usable(kind) == kind \in {"wrapped", "direct"}

\* the div.g blocks of a results page, given the kind of each: the k-th block
\* with a link points at the k-th shop
DivsOf(kinds) ==
    [j \in 1..Len(kinds) |->
        LET k == Cardinality({m \in 1..j : Usable(kinds[m])})
        IN  CASE kinds[j] = "none"    -> NoAnchor
              [] kinds[j] = "empty"   -> Anchor(<<>>)
              [] kinds[j] = "wrapped" -> Anchor(WrappedHref(k))
              [] kinds[j] = "direct"  -> Anchor(ShopUrl(k))
              [] kinds[j] = "malformed" -> Anchor(MalformedHref)]

RECURSIVE KindsUpTo(_)
KindsUpTo(n) ==
    IF n = 0 THEN {<<>>}
    ELSE KindsUpTo(n - 1)
         \cup {Append(ks, k) : ks \in {x \in KindsUpTo(n - 1) : Len(x) = n - 1},
                               k \in AnchorKinds}

\* what google_search(query, num=3) gives for each results page of at most
\* MaxAnchors blocks, with the number of blocks of the page that had a link
ResultPages ==
    {[usable |-> Cardinality({j \in 1..Len(kinds) : Usable(kinds[j])}),
      answer |-> GoogleSearch([ok |-> TRUE, divs |-> DivsOf(kinds)], NumResults)] :
        kinds \in KindsUpTo(MaxAnchors)}

\* the visible text of the pages a shop may answer with
PageTexts ==
    { <<"sold", " ", "out">>,
      <<"$", " ", "8">>,
      <<"$", "0">>,
      <<"$", "0", ".", "0", "0", " ", "free", " ", "shipping">>,
      <<"$", "8", " ", "shipping", " ", "$", "2">>,
      <<"now", " ", "$", "8", ".", " ", "Shipping", ":", " ", "$", "2", ".", "0", "0">>,
      <<"shipping", " ", "$", "-", " ", "$", "0", ",", "0", "0", "8", " ",
        "SHIPPING", " ", "from", " ", "$", "2">>,
      <<"$", "1", ".", "2", ".", "3">>,
      <<"only", " ", "$", "1", "9", ".", "9", "9", ".">>,
      <<"$", "5", " ", "shipping", " ", "$", "2", ".", "5", ".">> }

PageResponses ==
    {[ok |-> FALSE, text |-> <<>>]} \cup {[ok |-> TRUE, text |-> t] : t \in PageTexts}

NotReturned == [set |-> FALSE, rows |-> <<>>]
Returned(rows) == [set |-> TRUE, rows |-> rows]

StaleFile == File(<< <<Key("Item Name")>>, <<"last run">> >>)

LinkIdle ==
    /\ href = <<>>
    /\ gen = [kind |-> "relative", isUrl |-> FALSE, literal |-> FALSE,
              dest |-> <<>>, hasQ |-> FALSE]
    /\ cleaned = NotCalled

\* main starts: parse_input has read at most most line items; the output
\* path holds no file or the report of an earlier run
InitUpTo(most) ==
    /\ LinkIdle
    /\ \E n \in 0..most : items = [i \in 1..n |-> Item(i)]
    /\ outfile \in {NoFile, StaleFile}
    /\ pc = "search"
    /\ idx = 1
    /\ search_results = <<>>
    /\ usable = 0
    /\ options = <<>>
    /\ requests = <<>>
    /\ results = <<>>
    /\ returned = NotReturned
    /\ failed = {}
    /\ err = "none"

Init == InitUpTo(MaxItems)

InitBatch == InitUpTo(BatchItems)

\* line 139, the search request fails: google_search raises (line 95), and
\* nothing in compare_prices or main catches it
SearchFails ==
    /\ pc = "search" /\ idx <= Len(items)
    /\ LET r == GoogleSearch([ok |-> FALSE, divs |-> <<>>], NumResults)
       IN  /\ err' = r.exc
           /\ pc' = "crashed"
    /\ failed' = failed \cup {<<"search", idx, 0, <<>>>>}
    /\ UNCHANGED <<items, outfile, idx, search_results, usable, options,
                   requests, results, returned>>
    /\ UNCHANGED linkVars

\* line 139, the search request is answered with a results page; a link
\* that urlparse rejects makes _clean_google_link, and so google_search, raise
SearchAnswers ==
    /\ pc = "search" /\ idx <= Len(items)
    /\ \E page \in ResultPages :
         LET r == page.answer
         IN  IF r.exc = "none"
             THEN /\ search_results' = r.results
                  /\ usable' = page.usable
                  /\ pc' = "fetch"
                  /\ UNCHANGED err
             ELSE /\ pc' = "crashed"
                  /\ err' = r.exc
                  /\ UNCHANGED <<search_results, usable>>
    /\ options' = <<>>
    /\ UNCHANGED <<items, outfile, idx, requests, results, returned, failed>>
    /\ UNCHANGED linkVars

\* lines 141-143, one turn of the loop: the next hit is scraped
Fetch ==
    /\ pc = "fetch" /\ Len(options) < Len(search_results)
    /\ LET k   == Len(options) + 1
           url == search_results[k].link
       IN  \E resp \in PageResponses :
             LET r == FetchProductInfo(url, resp)
             IN  /\ requests' = Append(requests, <<idx, k, url>>)
                 /\ failed' = IF resp.ok THEN failed
                              ELSE failed \cup {<<"fetch", idx, k, url>>}
                 /\ IF r.exc = "none"
                    THEN /\ options' = Append(options, r.opt)
                         /\ UNCHANGED <<pc, err>>
                    ELSE /\ pc' = "crashed"
                         /\ err' = r.exc
                         /\ UNCHANGED options
    /\ UNCHANGED <<items, outfile, idx, search_results, usable, results, returned>>
    /\ UNCHANGED linkVars

\* lines 144-161: every hit is scraped; the item's row is built and appended
BuildRow ==
    /\ pc = "fetch" /\ Len(options) = Len(search_results)
    /\ results' = Append(results, MakeRow(items[idx], options))
    /\ idx' = idx + 1
    /\ search_results' = <<>>
    /\ options' = <<>>
    /\ pc' = "search"
    /\ UNCHANGED <<items, outfile, usable, requests, returned, failed, err>>
    /\ UNCHANGED linkVars

\* line 162: the loop is over, compare_prices returns the sorted rows
Return ==
    /\ pc = "search" /\ idx > Len(items)
    /\ returned' = Returned(Sorted(results))
    /\ pc' = "csv"
    /\ UNCHANGED <<items, outfile, idx, search_results, usable, options,
                   requests, results, failed, err>>
    /\ UNCHANGED linkVars

\* line 179: main writes the report
ToCsv ==
    /\ pc = "csv"
    /\ LET w == ToCsvResult(returned.rows, outfile)
       IN  /\ outfile' = w.file
           /\ err' = w.exc
           /\ pc' = IF w.exc = "none" THEN "done" ELSE "crashed"
    /\ UNCHANGED <<items, idx, search_results, usable, options, requests,
                   results, returned, failed>>
    /\ UNCHANGED linkVars

Next ==
    \/ SearchFails
    \/ SearchAnswers
    \/ Fetch
    \/ BuildRow
    \/ Return
    \/ ToCsv

\* a run of main on an input of at most MaxItems line items
Spec == Init /\ [][Next]_vars

\* a run of main on an input of at most BatchItems line items
SpecBatch == InitBatch /\ [][Next]_vars


(***************************************************************************)
(* Properties of the pipeline                                              *)
(***************************************************************************)

RowBest(row) == RowGet(row, Key("Best Total Price"))

\* the Alt Vendor fields of a row, in order: <<vendor, price, freight, url>>
RowAlts(row) ==
    LET alts == SelectSeq(row, LAMBDA kv : kv[1][1] = "Alt Vendor")
    IN  [i \in 1..Len(alts) |-> alts[i][2]]

\* every row built so far, returned or not
AllRows == Range(results) \cup Range(returned.rows)

\* price + freight of an option text, an absent freight counted as 0
AltTotal(alt) == alt[2][1] + (IF alt[3] = NoFloat THEN 0 ELSE alt[3][1])

\* the best total is the least total of the priced ones among alts, and
\* absent when none is priced
IsLeastTotal(best, alts, among) ==
    LET priced == {k \in among : alts[k][2] # NoFloat}
    IN  IF priced = {} THEN best = NoFloat
        ELSE /\ best # NoFloat
             /\ \E k \in priced : best[1] = AltTotal(alts[k])
             /\ \A k \in priced : best[1] <= AltTotal(alts[k])

\* C3: a row's Best Total Price is the minimum, over the item's scraped
\* options with a price, of price + freight (absent freight as 0), and it is
\* absent exactly when no option has a price.
C3_BestTotalIsMinimum ==
    \A row \in AllRows :
        IsLeastTotal(RowBest(row), RowAlts(row), 1..Len(RowAlts(row)))

\* a returned row with an unpriced option and two priced ones of different
\* totals, 8 + 2 and 0 with no freight
C3_Witness ==
    /\ returned.set
    /\ \E j \in 1..Len(returned.rows) :
         LET alts == RowAlts(returned.rows[j])
         IN  /\ Len(alts) = 3
             /\ alts[1][2] = NoFloat
             /\ alts[2][2] = Some(8 * Scale) /\ alts[2][3] = Some(2 * Scale)
             /\ alts[3][2] = Some(0) /\ alts[3][3] = NoFloat
             /\ RowBest(returned.rows[j]) = Some(0)

\* C4: in the returned list every row with a best total (0 included) comes
\* before every row without one, and the totals present are in ascending
\* order.
C4_SortedByBestTotal ==
    returned.set =>
        \A i, j \in 1..Len(returned.rows) :
            (i < j /\ RowBest(returned.rows[j]) # NoFloat)
                => /\ RowBest(returned.rows[i]) # NoFloat
                   /\ RowBest(returned.rows[i])[1] <= RowBest(returned.rows[j])[1]

\* C5: a failed search request does not end the run: the item is treated as
\* having no candidates, its row has no best total and no Alt Vendor field.
C5_SearchFailureIsRecovered ==
    \A f \in failed :
        f[1] = "search"
            => /\ pc # "crashed"
               /\ f[2] < idx
                    => /\ RowBest(results[f[2]]) = NoFloat
                       /\ Len(results[f[2]]) = 6

\* compare_prices is over: it returned or it raised
ComparisonOver == returned.set \/ pc = "crashed"

\* C6: whatever the searches, fetches and extractions give, compare_prices
\* returns as many rows as it got items, one row per item with the item's
\* name, vendor, quantity, unit price and freight.
C6_OneRowPerItem ==
    ComparisonOver =>
        /\ returned.set
        /\ Len(returned.rows) = Len(items)
        /\ \A i \in 1..Len(items) :
             Cardinality({j \in 1..Len(returned.rows) :
                 /\ RowGet(returned.rows[j], Key("Item Name")) = items[i].name
                 /\ RowGet(returned.rows[j], Key("Original Vendor")) = items[i].vendor
                 /\ RowGet(returned.rows[j], Key("Quantity")) = items[i].quantity
                 /\ RowGet(returned.rows[j], Key("Original Unit Price")) = items[i].unit_price
                 /\ RowGet(returned.rows[j], Key("Original Freight")) = items[i].freight}) = 1

\* C7: after a run with no line items the output path holds nothing (no
\* header, no line), whether or not it held a file before.
C7_EmptyRunWritesEmptyFile ==
    (pc = "done" /\ items = <<>>) => outfile.lines = <<>>

\* the cells of row under the field names keys, extra fields dropped
Projected(keys, row) ==
    [k \in 1..Len(keys) |->
        IF HasKey(row, keys[k]) THEN <<RowGet(row, keys[k])>> ELSE <<"">>]

\* C8: to_csv takes its columns from the first row; a later row with more Alt
\* Vendor fields is written all the same, without the extra ones: no error,
\* and one line per row after the header.
C8_ExtraFieldsDropped ==
    (returned.set /\ returned.rows # <<>> /\ pc \in {"done", "crashed"})
        => /\ err = "none"
           /\ outfile = File(<<RowKeys(returned.rows[1])>>
                  \o [j \in 1..Len(returned.rows) |->
                        Projected(RowKeys(returned.rows[1]), returned.rows[j])])

\* the page requests made for item i, in order
RequestsOf(i) == SelectSeq(requests, LAMBDA r : r[1] = i)

\* the options of item i as far as they are known: those of its row, or
\* those scraped so far
OptionTexts(i) ==
    IF i < idx THEN RowAlts(results[i])
    ELSE IF i = idx THEN [k \in 1..Len(options) |-> AltText(options[k])]
    ELSE <<>>

\* C9: a failed page fetch is not propagated: the option is <<"", None, None,
\* url>>, it has its Alt Vendor field, it does not count for the best total,
\* and the page is requested once only.
C9_FailedFetchGivesEmptyOption ==
    \A f \in failed :
        f[1] = "fetch" =>
            LET i == f[2]
                k == f[3]
                alts == OptionTexts(i)
            IN  /\ Len(alts) >= k
                /\ alts[k] = <<<<>>, NoFloat, NoFloat, f[4]>>
                /\ Cardinality({n \in 1..Len(requests) :
                       requests[n][1] = i /\ requests[n][2] = k}) = 1
                /\ i < idx =>
                     /\ HasKey(results[i], AltKey(k))
                     /\ IsLeastTotal(RowBest(results[i]), alts,
                                     (1..Len(alts)) \ {k})

\* a finished run in which the second page of an item could not be fetched
\* and the first and third gave 8 + 2 and 0
C9_Witness ==
    /\ pc = "done"
    /\ \E f \in failed :
         /\ f[1] = "fetch" /\ f[3] = 2
         /\ Len(RowAlts(results[f[2]])) = 3
         /\ RowAlts(results[f[2]])[2][1] = <<>>
         /\ RowBest(results[f[2]]) = Some(10 * Scale)

\* C10: a search gives at most 3 hits, as many as the results page has usable
\* anchors when these are fewer; every hit is scraped once, in order; a row
\* has one Alt Vendor field per hit, numbered from 1, so 6 to 9 fields.
C10_ThreeHitsOneFieldEach ==
    /\ Len(search_results) <= 3
    /\ pc = "fetch" =>
         Len(search_results) = (IF usable < 3 THEN usable ELSE 3)
    /\ \A i \in 1..Len(items) :
         LET reqs == RequestsOf(i)
             alts == OptionTexts(i)
         IN  /\ \A n \in 1..Len(reqs) : reqs[n][2] = n
             /\ Len(alts) <= Len(reqs) /\ Len(reqs) <= 3
             /\ \A k \in 1..Len(alts) : alts[k][4] = reqs[k][3]
             /\ i = idx =>
                  /\ Len(reqs) <= Len(search_results)
                  /\ \A n \in 1..Len(reqs) : reqs[n][3] = search_results[n].link
             /\ i < idx =>
                  /\ Len(alts) = Len(reqs)
                  /\ RowKeys(results[i]) =
                        << Key("Item Name"), Key("Original Vendor"), Key("Quantity"),
                           Key("Original Unit Price"), Key("Original Freight"),
                           Key("Best Total Price") >>
                        \o [k \in 1..Len(alts) |-> AltKey(k)]
                  /\ Len(results[i]) >= 6 /\ Len(results[i]) <= 9

\* a results page with four usable anchors gave three page requests and a
\* row of nine fields
C10_Witness ==
    /\ pc = "done"
    /\ usable = 4
    /\ Len(RequestsOf(1)) = 3
    /\ Len(results[1]) = 9

\* What does hold of the links that are not redirect-wrapped: those urlparse
\* takes come back unchanged, and the others make the call raise.
CleanLinkUnchangedOrRaises ==
    (cleaned # NotCalled /\ ~(gen.isUrl /\ gen.hasQ))
        => IF gen.kind = "malformed"
           THEN cleaned.exc = "ValueError"
           ELSE cleaned = [exc |-> "none", value |-> href]

====
